---- MODULE Spec2Model ----
(***************************************************************************)
(* A model of the scraping tutorial scripts:                               *)
(*   lib/practical_example.py  scrape_quotes_to_scrape, save_data_to_files *)
(*   lib/advanced_examples.py  scrape_with_error_handling                  *)
(* The web site, the HTTP client and the file system are the environment:  *)
(* every response and every I/O fault is chosen nondeterministically from  *)
(* small sets.  Element texts are sequences of one-character strings so    *)
(* that get_text(strip=True) and ', '.join are computed, not assumed.      *)
(***************************************************************************)
EXTENDS Integers, Sequences, FiniteSets, TLC

VARIABLES
    fn,          \* the function of the scripts that is running
    pc,          \* its position; it stays where an exception left the function
    page,        \* scrape_quotes_to_scrape: the page counter
    url,         \* scrape_quotes_to_scrape: the URL of the current iteration
    all_quotes,  \* scrape_quotes_to_scrape: the accumulator
    served,      \* what the site answered, one entry per requests.get
    calls,       \* the requests.get and time.sleep calls made, in order
    inflight,    \* number of requests.get calls that have not returned
    reason,      \* which exit of the loop was taken ("" while looping)
    result,      \* the value returned by scrape_quotes_to_scrape
    site,        \* the answers of the site's pages as seen so far: they do not change
    previous,    \* the values returned by the earlier calls of scrape_quotes_to_scrape
    raised,      \* the exception that left the running function ("" if none)
    quotes,      \* save_data_to_files: its argument
    files,       \* the file system: file name -> content
    report,      \* analyze_scraped_data: what it has computed and printed
    todo,        \* scrape_with_error_handling: the URLs still to try
    handled      \* scrape_with_error_handling: one entry per URL tried

vars == <<fn, pc, page, url, all_quotes, served, calls, inflight, reason,
          result, site, previous, raised, quotes, files, report, todo, handled>>

scrapeVars == <<page, url, all_quotes, served, calls, inflight, reason, result,
                site, previous>>
saveVars == <<quotes, files, report>>
errVars == <<todo, handled>>

--------------------------------------------------------------------------
(* Bounds of the model *)

MaxPages == 4      \* pages the mock site serves before the model stops
MaxSaved == 6      \* records handed to save_data_to_files
MaxCalls == 2      \* calls of scrape_quotes_to_scrape against the same site

--------------------------------------------------------------------------
(* Text helpers *)

Whitespace == {" ", "\t", "\n"}

RECURSIVE LStrip(_)
LStrip(s) ==
    IF s # <<>> /\ Head(s) \in Whitespace THEN LStrip(Tail(s)) ELSE s

RECURSIVE RStrip(_)
RStrip(s) ==
    IF s # <<>> /\ s[Len(s)] \in Whitespace
    THEN RStrip(SubSeq(s, 1, Len(s) - 1))
    ELSE s

\* elem.get_text(strip=True) of an element holding one text node
GetText(elem) == RStrip(LStrip(elem))

\* scope.select(cls): every match, in document order
Select(scope, cls) == scope[cls]

\* scope.select_one(cls): the first match, or nothing (None)
SelectOne(scope, cls) ==
    IF Select(scope, cls) = <<>> THEN <<>> ELSE <<Head(Select(scope, cls))>>

NoText == <<"N", "o", " ", "t", "e", "x", "t">>
Unknown == <<"U", "n", "k", "n", "o", "w", "n">>

--------------------------------------------------------------------------
(* The mock site *)

\* '.quote' elements: the matches of each field selector inside the element
QuoteFull ==
    [text   |-> << <<" ", "q", "1">> >>,
     author |-> << <<"A", "\n">> >>,
     tag    |-> << <<"a">>, <<"b", " ">> >>]

QuoteNoText ==
    [text   |-> <<>>,
     author |-> << <<"B">> >>,
     tag    |-> <<>>]

QuoteNoAuthor ==
    [text   |-> << <<"q", "2">>, <<"q", "3">> >>,
     author |-> <<>>,
     tag    |-> << <<"a">> >>]

QuoteKinds == {QuoteFull, QuoteNoText, QuoteNoAuthor}

RECURSIVE SeqsUpTo(_, _)
SeqsUpTo(S, n) ==
    IF n = 0 THEN {<<>>}
    ELSE LET shorter == SeqsUpTo(S, n - 1)
         IN  shorter \cup {Append(s, x) : s \in {t \in shorter : Len(t) = n - 1}, x \in S}

base_url == "http://quotes.toscrape.com"

PagePath(p) == "/page/" \o ToString(p) \o "/"

\* mutant of PageUrl: the page counter taken as zero-based
PageUrlZeroBased(p) == [origin |-> base_url, path |-> PagePath(p - 1)]

\* the URL line 27 builds for page p
PageUrl(p) == [origin |-> base_url, path |-> PagePath(p)]

\* hrefs the '.next' link of page p may carry: the following page, or another place
NextHrefs(p) ==
    {[origin |-> "", path |-> PagePath(p + 1)],
     [origin |-> "", path |-> "/tag/love/page/1/"]}

\* the '.quote' elements a page of the mock site may hold
QuoteLists ==
    {<<>>,
     <<QuoteFull>>,
     <<QuoteNoText, QuoteNoAuthor>>,
     <<QuoteNoAuthor, QuoteFull, QuoteNoText>>}

\* the parsed documents page p may be: its '.quote' elements and its '.next' elements
Docs(p) ==
    [quote : QuoteLists,
     next  : {<<>>} \cup {<<[href |-> h]>> : h \in NextHrefs(p)}]

NoDoc == [quote |-> <<>>, next |-> <<>>]

\* urljoin(base, href) for hrefs that are absolute URLs or absolute paths
urljoin(base, href) ==
    IF href.origin # "" THEN href
    ELSE [origin |-> base.origin, path |-> href.path]

--------------------------------------------------------------------------
(* Exceptions: the classes a fetch or a parse may raise and their bases *)

Bases(exc) ==
    CASE exc = "ReadTimeout"      -> {"ReadTimeout", "Timeout", "RequestException", "Exception"}
      [] exc = "ConnectTimeout"   -> {"ConnectTimeout", "Timeout", "ConnectionError",
                                      "RequestException", "Exception"}
      [] exc = "ConnectionError"  -> {"ConnectionError", "RequestException", "Exception"}
      [] exc = "HTTPError"        -> {"HTTPError", "RequestException", "Exception"}
      [] exc = "TooManyRedirects" -> {"TooManyRedirects", "RequestException", "Exception"}
      [] OTHER                    -> {exc, "Exception"}

\* raised by requests.get or response.raise_for_status
FetchErrors == {"ReadTimeout", "ConnectTimeout", "ConnectionError", "HTTPError",
                "TooManyRedirects"}

\* raised by BeautifulSoup(response.text, 'html.parser')
ParseErrors == {"ParserRejectedMarkup"}

\* the except clause of a try statement that handles exc: the first one, in
\* order, naming a base of exc; "" when none does
RECURSIVE Handler(_, _)
Handler(clauses, exc) ==
    IF clauses = <<>> THEN ""
    ELSE IF Head(clauses) \in Bases(exc) THEN Head(clauses)
    ELSE Handler(Tail(clauses), exc)

--------------------------------------------------------------------------
(* scrape_quotes_to_scrape *)

ScrapeClauses == <<"RequestException">>

\* mutant of QuoteData: the author default copied from the text default
QuoteDataCopiedDefault(quote, p) ==
    LET text_elem   == SelectOne(quote, "text")
        author_elem == SelectOne(quote, "author")
        tag_elements == Select(quote, "tag")
    IN  [text   |-> IF text_elem # <<>> THEN GetText(text_elem[1]) ELSE NoText,
         author |-> IF author_elem # <<>> THEN GetText(author_elem[1]) ELSE NoText,
         tags   |-> [i \in 1..Len(tag_elements) |-> GetText(tag_elements[i])],
         page   |-> p]

\* lines 44-61: the record built from one '.quote' element
QuoteData(quote, p) ==
    LET text_elem   == SelectOne(quote, "text")
        author_elem == SelectOne(quote, "author")
        tag_elements == Select(quote, "tag")
    IN  [text   |-> IF text_elem # <<>> THEN GetText(text_elem[1]) ELSE NoText,
         author |-> IF author_elem # <<>> THEN GetText(author_elem[1]) ELSE Unknown,
         tags   |-> [i \in 1..Len(tag_elements) |-> GetText(tag_elements[i])],
         page   |-> p]

\* mutant of PageQuotes: the for loop skips the first match
PageQuotesSkipFirst(doc, p) ==
    LET found == Tail(Select(doc, "quote"))
    IN  [i \in 1..Len(found) |-> QuoteData(found[i], p)]

\* lines 43-64: the records of one page, in document order
PageQuotes(doc, p) ==
    LET found == Select(doc, "quote")
    IN  [i \in 1..Len(found) |-> QuoteData(found[i], p)]

InitScrape ==
    /\ fn = "scrape_quotes_to_scrape"
    /\ pc = "loop"

\* mutant of Request: the delay moved to the top of the loop body
RequestSleepsFirst ==
    /\ fn = "scrape_quotes_to_scrape"
    /\ pc = "loop"
    /\ page <= MaxPages
    /\ url' = PageUrl(page)
    /\ calls' = calls \o <<[op |-> "sleep", secs |-> "0.5"],
                           [op |-> "get", url |-> PageUrl(page)]>>
    /\ inflight' = inflight + 1
    /\ pc' = "get"
    /\ UNCHANGED <<fn, page, all_quotes, served, reason, result, raised>>
    /\ UNCHANGED <<site, previous, saveVars, errVars>>

\* lines 26-31: build the URL and call requests.get
Request ==
    /\ fn = "scrape_quotes_to_scrape"
    /\ pc = "loop"
    /\ page <= MaxPages
    /\ url' = PageUrl(page)
    /\ calls' = Append(calls, [op |-> "get", url |-> PageUrl(page)])
    /\ inflight' = inflight + 1
    /\ pc' = "get"
    /\ UNCHANGED <<fn, page, all_quotes, served, reason, result, raised>>
    /\ UNCHANGED <<site, previous, saveVars, errVars>>

\* a break out of the loop, then lines 82-83
Break(why, records) ==
    /\ all_quotes' = records
    /\ reason' = why
    /\ result' = records
    /\ pc' = "done"
    /\ UNCHANGED <<page, raised>>

\* exc is raised inside the try of lines 30-76
Raise(exc) ==
    IF Handler(ScrapeClauses, exc) # ""
    THEN Break(Handler(ScrapeClauses, exc), all_quotes)
    ELSE /\ raised' = exc
         /\ UNCHANGED <<pc, page, all_quotes, reason, result>>

\* the call of line 31 returns: the site's answer is recorded; a page that was
\* fetched by an earlier call answers as it did then
Answer(exc, doc) ==
    /\ fn = "scrape_quotes_to_scrape"
    /\ pc = "get"
    /\ raised = ""
    /\ Len(served) < Len(site) => site[Len(served) + 1] = [exc |-> exc, doc |-> doc]
    /\ served' = Append(served, [exc |-> exc, doc |-> doc])
    /\ site' = IF Len(served) < Len(site) THEN site
               ELSE Append(site, [exc |-> exc, doc |-> doc])
    /\ inflight' = inflight - 1
    /\ UNCHANGED <<fn, url, calls, previous>>
    /\ UNCHANGED <<saveVars, errVars>>

\* lines 31-32 raise
FetchFails ==
    \E exc \in FetchErrors :
        /\ Answer(exc, NoDoc)
        /\ Raise(exc)

\* line 34 raises
ParseFails ==
    \E exc \in ParseErrors :
        /\ Answer(exc, NoDoc)
        /\ Raise(exc)

\* mutant of NoQuotes: the next link is looked for before the items
NoQuotesChecksNext ==
    \E doc \in Docs(page) :
        /\ Select(doc, "quote") = <<>>
        /\ Answer("", doc)
        /\ Break(IF SelectOne(doc, "next") = <<>> THEN "NoNextPage" ELSE "NoItemsOnPage",
                 all_quotes)

\* lines 37-41: no '.quote' on the page
NoQuotes ==
    \E doc \in Docs(page) :
        /\ Select(doc, "quote") = <<>>
        /\ Answer("", doc)
        /\ Break("NoItemsOnPage", all_quotes)

\* mutant of LastPage: the break of line 70 is missing
LastPageGoesOn ==
    \E doc \in Docs(page) :
        /\ Select(doc, "quote") # <<>>
        /\ SelectOne(doc, "next") = <<>>
        /\ Answer("", doc)
        /\ all_quotes' = all_quotes \o PageQuotes(doc, page)
        /\ page' = page + 1
        /\ pc' = "sleep"
        /\ UNCHANGED <<reason, result, raised>>

\* lines 43-70: quotes, and no '.next'
LastPage ==
    \E doc \in Docs(page) :
        /\ Select(doc, "quote") # <<>>
        /\ SelectOne(doc, "next") = <<>>
        /\ Answer("", doc)
        /\ Break("NoNextPage", all_quotes \o PageQuotes(doc, page))

\* mutant of NextPage: a page cap of two pages ends the loop
NextPageCapped ==
    \E doc \in Docs(page) :
        /\ Select(doc, "quote") # <<>>
        /\ SelectOne(doc, "next") # <<>>
        /\ Answer("", doc)
        /\ IF page + 1 > 2
           THEN Break("MaxPagesReached", all_quotes \o PageQuotes(doc, page))
           ELSE /\ all_quotes' = all_quotes \o PageQuotes(doc, page)
                /\ page' = page + 1
                /\ pc' = "sleep"
                /\ UNCHANGED <<reason, result, raised>>

\* lines 43-72: quotes, and a '.next'
NextPage ==
    \E doc \in Docs(page) :
        /\ Select(doc, "quote") # <<>>
        /\ SelectOne(doc, "next") # <<>>
        /\ Answer("", doc)
        /\ all_quotes' = all_quotes \o PageQuotes(doc, page)
        /\ page' = page + 1
        /\ pc' = "sleep"
        /\ UNCHANGED <<reason, result, raised>>

\* lines 75-76
Sleep ==
    /\ fn = "scrape_quotes_to_scrape"
    /\ pc = "sleep"
    /\ calls' = Append(calls, [op |-> "sleep", secs |-> "0.5"])
    /\ pc' = "loop"
    /\ UNCHANGED <<fn, page, url, all_quotes, served, inflight, reason, result, raised>>
    /\ UNCHANGED <<site, previous, saveVars, errVars>>

\* mutant of CallAgain: the accumulator lives outside the function
CallAgainKeepsList ==
    /\ fn = "scrape_quotes_to_scrape"
    /\ pc = "done"
    /\ raised = ""
    /\ Len(previous) + 1 < MaxCalls
    /\ previous' = Append(previous, result)
    /\ url' = [origin |-> base_url, path |-> ""]
    /\ all_quotes' = all_quotes
    /\ page' = 1
    /\ served' = <<>>
    /\ calls' = <<>>
    /\ reason' = ""
    /\ result' = <<>>
    /\ pc' = "loop"
    /\ UNCHANGED <<fn, inflight, site, raised, saveVars, errVars>>

\* the function has returned and is called again: lines 18-24 set up the new
\* call's own list and counter
CallAgain ==
    /\ fn = "scrape_quotes_to_scrape"
    /\ pc = "done"
    /\ raised = ""
    /\ Len(previous) + 1 < MaxCalls
    /\ previous' = Append(previous, result)
    /\ url' = [origin |-> base_url, path |-> ""]
    /\ all_quotes' = <<>>
    /\ page' = 1
    /\ served' = <<>>
    /\ calls' = <<>>
    /\ reason' = ""
    /\ result' = <<>>
    /\ pc' = "loop"
    /\ UNCHANGED <<fn, inflight, site, raised, saveVars, errVars>>

NextScrape ==
    \/ Request \/ FetchFails \/ ParseFails \/ NoQuotes \/ LastPage \/ NextPage \/ Sleep
    \/ CallAgain

--------------------------------------------------------------------------
(* save_data_to_files *)

json_filename == "quotes.json"
csv_filename == "quotes.csv"
txt_filename == "quotes_summary.txt"

FileNames == {json_filename, csv_filename, txt_filename}

\* what a path holds before the call: the file of an earlier run, or nothing
OldFile == [format |-> "old", complete |-> TRUE]

fieldnames == <<"text", "author", "tags", "page">>

SampleCount == 5

Min(a, b) == IF a < b THEN a ELSE b

\* str(n) for n >= 0
RECURSIVE Str(_)
Str(n) ==
    IF n < 10 THEN <<ToString(n)>>
    ELSE Str(n \div 10) \o <<ToString(n % 10)>>

\* sep.join(parts)
RECURSIVE Join(_, _)
Join(sep, parts) ==
    IF parts = <<>> THEN <<>>
    ELSE IF Len(parts) = 1 THEN Head(parts)
    ELSE Head(parts) \o sep \o Join(sep, Tail(parts))

\* lines 161-163: the row of one record, in fieldnames order
CsvRow(quote) ==
    <<quote.text, quote.author, Join(<<",", " ">>, quote.tags), Str(quote.page)>>

\* line 149: what json.dump writes for the first n records
JsonContent(qs, n) ==
    [format |-> "json", records |-> SubSeq(qs, 1, n), complete |-> n = Len(qs)]

\* lines 156-163: the header and the rows of the first n records
CsvContent(qs, n) ==
    [format   |-> "csv",
     header   |-> fieldnames,
     rows     |-> [i \in 1..n |-> CsvRow(qs[i])],
     complete |-> n = Len(qs)]

\* mutant of TxtContent: the authors counted in a list, not a set
TxtContentCountsList(qs, n) ==
    [format   |-> "txt",
     total    |-> Len(qs),
     authors  |-> Len([i \in 1..Len(qs) |-> qs[i].author]),
     samples  |-> [i \in 1..n |-> <<i, qs[i].text, qs[i].author>>],
     complete |-> n = Min(SampleCount, Len(qs))]

\* lines 170-179: the summary, with the first n sample lines
TxtContent(qs, n) ==
    [format   |-> "txt",
     total    |-> Len(qs),
     authors  |-> Cardinality({qs[i].author : i \in 1..Len(qs)}),
     samples  |-> [i \in 1..n |-> <<i, qs[i].text, qs[i].author>>],
     complete |-> n = Min(SampleCount, Len(qs))]

\* the save step's sinks in the order of lines 146-181: the file of each, what a
\* write that stops after n items leaves, and the number of items of a full write
Sinks ==
    <<[pc |-> "json", file |-> json_filename, items |-> Len(quotes)],
      [pc |-> "csv",  file |-> csv_filename,  items |-> Len(quotes)],
      [pc |-> "txt",  file |-> txt_filename,  items |-> Min(SampleCount, Len(quotes))]>>

\* mutant of Written: the last item stays in a buffer that is never flushed
WrittenUnflushed(sink, qs, n) ==
    LET m == IF n > 0 THEN n - 1 ELSE 0
    IN  CASE sink = 1 -> JsonContent(qs, m)
          [] sink = 2 -> CsvContent(qs, m)
          [] sink = 3 -> TxtContent(qs, m)

\* what a write of sink number `sink` leaves in its file after n items
Written(sink, qs, n) ==
    CASE sink = 1 -> JsonContent(qs, n)
      [] sink = 2 -> CsvContent(qs, n)
      [] sink = 3 -> TxtContent(qs, n)

\* mutant of QuotesAfter: line 161 without .copy(), so line 162 writes into the record
QuotesAfterNoCopy(sink, qs, n) ==
    IF sink = 2
    THEN [i \in 1..Len(qs) |->
             IF i <= n THEN [qs[i] EXCEPT !.tags = Join(<<",", " ">>, qs[i].tags)]
             ELSE qs[i]]
    ELSE qs

\* the caller's records after sink number `sink` has handled n of them: no sink
\* assigns into a record (line 161 works on a copy)
QuotesAfter(sink, qs, n) == qs

SinkAt(p) == CHOOSE k \in 1..Len(Sinks) : Sinks[k].pc = p

AfterSink(k) == IF k < Len(Sinks) THEN Sinks[k + 1].pc ELSE "done"

\* records the scraper produces, as save_data_to_files may receive them
RecordKinds == {QuoteData(QuoteFull, 1), QuoteData(QuoteNoText, 1)}

InitSave ==
    /\ fn = "save_data_to_files"
    /\ pc = "entry"
    /\ quotes \in SeqsUpTo(RecordKinds, MaxSaved)
    /\ files \in [FileNames -> {OldFile}]

\* mutant of SaveNothing: the early return of lines 142-144 is missing
SaveNothingWritesAnyway ==
    /\ fn = "save_data_to_files"
    /\ pc = "entry"
    /\ quotes = <<>>
    /\ pc' = Sinks[1].pc
    /\ UNCHANGED <<fn, raised, quotes, files, report, scrapeVars, errVars>>

\* lines 142-144
SaveNothing ==
    /\ fn = "save_data_to_files"
    /\ pc = "entry"
    /\ quotes = <<>>
    /\ pc' = "done"
    /\ UNCHANGED <<fn, raised, quotes, files, report, scrapeVars, errVars>>

\* line 142 falls through to line 147
SaveStart ==
    /\ fn = "save_data_to_files"
    /\ pc = "entry"
    /\ quotes # <<>>
    /\ pc' = Sinks[1].pc
    /\ UNCHANGED <<fn, raised, quotes, files, report, scrapeVars, errVars>>

\* one 'with open(...)' block runs to its end
WriteSink ==
    /\ fn = "save_data_to_files"
    /\ pc \in {Sinks[k].pc : k \in 1..Len(Sinks)}
    /\ raised = ""
    /\ LET k == SinkAt(pc)
       IN  /\ files' = [files EXCEPT ![Sinks[k].file] = Written(k, quotes, Sinks[k].items)]
           /\ quotes' = QuotesAfter(k, quotes, Sinks[k].items)
           /\ pc' = AfterSink(k)
    /\ UNCHANGED <<fn, raised, report, scrapeVars, errVars>>

\* open(..., 'w') raises: the file is left as it was
OpenFails ==
    /\ fn = "save_data_to_files"
    /\ pc \in {Sinks[k].pc : k \in 1..Len(Sinks)}
    /\ raised = ""
    /\ raised' = "OSError"
    /\ UNCHANGED <<fn, pc, quotes, files, report, scrapeVars, errVars>>

\* a write inside the block raises after n items: the file is truncated
WriteFails ==
    /\ fn = "save_data_to_files"
    /\ pc \in {Sinks[k].pc : k \in 1..Len(Sinks)}
    /\ LET k == SinkAt(pc)
       IN  \E n \in 0..(Sinks[k].items - 1) :
               /\ files' = [files EXCEPT ![Sinks[k].file] = Written(k, quotes, n)]
               /\ quotes' = QuotesAfter(k, quotes, n)
    /\ raised = ""
    /\ raised' = "OSError"
    /\ UNCHANGED <<fn, pc, report, scrapeVars, errVars>>

NextSave == SaveNothing \/ SaveStart \/ WriteSink \/ OpenFails \/ WriteFails

--------------------------------------------------------------------------
(* analyze_scraped_data *)

NoReport == [printed |-> FALSE]

\* the number of places of seq that hold x
Count(seq, x) == Cardinality({i \in 1..Len(seq) : seq[i] = x})

Range(seq) == {seq[i] : i \in 1..Len(seq)}

\* lines 108-110: the tags of all records, in order
RECURSIVE AllTags(_)
AllTags(qs) ==
    IF qs = <<>> THEN <<>> ELSE Head(qs).tags \o AllTags(Tail(qs))

\* lines 96-133: the counts and the extreme text lengths of a non-empty list
Analysis(qs) ==
    LET authors  == [i \in 1..Len(qs) |-> qs[i].author]
        all_tags == AllTags(qs)
        lengths  == {Len(qs[i].text) : i \in 1..Len(qs)}
    IN  [printed       |-> TRUE,
         author_counts |-> [a \in Range(authors) |-> Count(authors, a)],
         tag_counts    |-> [t \in Range(all_tags) |-> Count(all_tags, t)],
         shortest      |-> CHOOSE n \in lengths : \A m \in lengths : n <= m,
         longest       |-> CHOOSE n \in lengths : \A m \in lengths : m <= n]

InitAnalyze ==
    /\ fn = "analyze_scraped_data"
    /\ pc = "entry"
    /\ quotes \in SeqsUpTo(RecordKinds, MaxSaved)
    /\ files \in [FileNames -> {OldFile}]

\* lines 92-94
AnalyzeNothing ==
    /\ fn = "analyze_scraped_data"
    /\ pc = "entry"
    /\ quotes = <<>>
    /\ pc' = "done"
    /\ UNCHANGED <<fn, raised, quotes, files, report, scrapeVars, errVars>>

\* lines 96-133
Analyze ==
    /\ fn = "analyze_scraped_data"
    /\ pc = "entry"
    /\ quotes # <<>>
    /\ report' = Analysis(quotes)
    /\ pc' = "done"
    /\ UNCHANGED <<fn, raised, quotes, files, scrapeVars, errVars>>

NextAnalyze == AnalyzeNothing \/ Analyze

--------------------------------------------------------------------------
(* scrape_with_error_handling *)

urls_to_try ==
    <<"https://httpbin.org/html",
      "https://httpbin.org/status/404",
      "https://this-domain-does-not-exist.invalid">>

\* mutant of ErrClauses: the broad clause placed first
ErrClausesBroadFirst ==
    <<"RequestException", "Timeout", "ConnectionError", "HTTPError", "Exception">>

\* mutant of ErrClauses: the catch-all clause of line 187 is missing
ErrClausesNoCatchAll == <<"Timeout", "ConnectionError", "HTTPError", "RequestException">>

\* lines 175-187: the except clauses, in order
ErrClauses == <<"Timeout", "ConnectionError", "HTTPError", "RequestException", "Exception">>

\* raised by lines 165-173 on a document they do not expect
UnexpectedErrors == {"AttributeError"}

InitErr ==
    /\ fn = "scrape_with_error_handling"
    /\ pc = "for"
    /\ todo = urls_to_try

\* lines 162-173 run to the end of the try
UrlSucceeds ==
    /\ fn = "scrape_with_error_handling"
    /\ pc = "for"
    /\ raised = ""
    /\ todo # <<>>
    /\ handled' = Append(handled, [url |-> Head(todo), exc |-> "", branch |-> "success"])
    /\ todo' = Tail(todo)
    /\ UNCHANGED <<fn, pc, raised, scrapeVars, saveVars>>

\* lines 162-173 raise exc: lines 175-188 pick the branch
UrlFails ==
    /\ fn = "scrape_with_error_handling"
    /\ pc = "for"
    /\ raised = ""
    /\ todo # <<>>
    /\ \E exc \in FetchErrors \cup ParseErrors \cup UnexpectedErrors :
           LET branch == Handler(ErrClauses, exc)
           IN  /\ handled' = Append(handled, [url |-> Head(todo), exc |-> exc, branch |-> branch])
               /\ IF branch # ""
                  THEN /\ todo' = Tail(todo)
                       /\ UNCHANGED <<pc, raised>>
                  ELSE /\ raised' = exc
                       /\ UNCHANGED <<pc, todo>>
    /\ UNCHANGED <<fn, scrapeVars, saveVars>>

\* the for loop of line 158 is exhausted
UrlsDone ==
    /\ fn = "scrape_with_error_handling"
    /\ pc = "for"
    /\ raised = ""
    /\ todo = <<>>
    /\ pc' = "done"
    /\ UNCHANGED <<fn, raised, todo, handled, scrapeVars, saveVars>>

NextErr == UrlSucceeds \/ UrlFails \/ UrlsDone

--------------------------------------------------------------------------
Init ==
    /\ page = 1
    /\ url = [origin |-> base_url, path |-> ""]
    /\ all_quotes = <<>>
    /\ served = <<>>
    /\ calls = <<>>
    /\ inflight = 0
    /\ reason = ""
    /\ result = <<>>
    /\ site = <<>>
    /\ previous = <<>>
    /\ raised = ""
    /\ handled = <<>>
    /\ report = NoReport
    /\ \/ InitScrape /\ quotes = <<>> /\ files = <<>> /\ todo = <<>>
       \/ InitSave /\ todo = <<>>
       \/ InitAnalyze /\ todo = <<>>
       \/ InitErr /\ quotes = <<>> /\ files = <<>>

Next == NextScrape \/ NextSave \/ NextAnalyze \/ NextErr

Spec == Init /\ [][Next]_vars

--------------------------------------------------------------------------
(* Vocabulary of the properties *)

Scraping == fn = "scrape_quotes_to_scrape"
Saving == fn = "save_data_to_files"

Last(s) == s[Len(s)]

\* the requests.get calls made so far, in order
Gets == SelectSeq(calls, LAMBDA c : c.op = "get")

\* page k was fetched and parsed without an exception
Fetched(k) == k \in 1..Len(served) /\ served[k].exc = ""

HasItems(k) == Fetched(k) /\ served[k].doc.quote # <<>>
HasNext(k) == Fetched(k) /\ served[k].doc.next # <<>>

\* the number of '.quote' elements of the pages 1..k that were fetched and parsed
RECURSIVE ItemCount(_)
ItemCount(k) ==
    IF k = 0 THEN 0
    ELSE ItemCount(k - 1) + (IF Fetched(k) THEN Len(served[k].doc.quote) ELSE 0)

\* the '.quote' elements of the pages 1..k, in page order then document order
RECURSIVE Items(_)
Items(k) ==
    IF k = 0 THEN <<>>
    ELSE Items(k - 1) \o (IF Fetched(k) THEN served[k].doc.quote ELSE <<>>)

--------------------------------------------------------------------------
(* C1: however the pagination loop ends, the record list is as long as the
   sum of the item counts of the pages fetched and processed, the page values
   never decrease along the list, and the first record is of page 1. *)
C1_LengthAndPageOrder ==
    Scraping =>
        /\ Len(all_quotes) = ItemCount(Len(served))
        /\ \A i \in 1..Len(all_quotes) : \A j \in i..Len(all_quotes) :
               all_quotes[i].page <= all_quotes[j].page
        /\ all_quotes # <<>> => all_quotes[1].page = 1
        /\ pc = "done" => result = all_quotes

C1_Witness ==
    /\ Scraping
    /\ pc = "done"
    /\ reason = "RequestException"
    /\ Len(result) = 5
    /\ result[5].page = 3

(* C2: the loop stops at the first page without items or without a next
   link: every page fetched before the last one had both, and a page that
   has both does not end the loop. *)
C2_StopsAtFirstExhaustedPage ==
    Scraping =>
        /\ \A k \in 1..(Len(served) - 1) : HasItems(k) /\ HasNext(k)
        /\ Len(Gets) - Len(served) \in {0, 1}
        /\ (served # <<>> /\ Fetched(Len(served)) /\ pc = "done") =>
               ~(HasItems(Len(served)) /\ HasNext(Len(served)))
        /\ (served # <<>> /\ HasItems(Len(served)) /\ HasNext(Len(served))) =>
               /\ pc \in {"sleep", "loop", "get"}
               /\ page = Len(served) + 1

C2_Witness ==
    /\ Scraping
    /\ pc = "done"
    /\ Len(served) = 3
    /\ HasItems(3)
    /\ ~HasNext(3)

(* C3: an error raised while fetching or parsing page k is caught inside
   scrape_quotes_to_scrape: nothing propagates to the caller and the call
   returns the records of the pages before k. *)
C3_ErrorsCaught ==
    (Scraping /\ served # <<>> /\ Last(served).exc # "") =>
        /\ raised = ""
        /\ pc = "done"
        /\ result = all_quotes
        /\ Len(result) = ItemCount(Len(served) - 1)

--------------------------------------------------------------------------
\* the fault categories of the classification: timeout, connection (DNS)
\* failure, HTTP error status
FaultCategory(exc) ==
    CASE exc = "ReadTimeout"     -> "Timeout"
      [] exc = "ConnectTimeout"  -> "Timeout"
      [] exc = "ConnectionError" -> "ConnectionError"
      [] exc = "HTTPError"       -> "HTTPError"
      [] OTHER                   -> ""

(* C4: a timeout, a connection failure and an HTTP error status each end in
   a terminal failure kind of their own, wherever a fetch is made: the fault
   is reported under the branch of its own category. *)
C4_DistinctFailureKinds ==
    /\ (Scraping /\ served # <<>> /\ FaultCategory(Last(served).exc) # "") =>
           reason = FaultCategory(Last(served).exc)
    /\ \A i \in 1..Len(handled) :
           FaultCategory(handled[i].exc) # "" =>
               handled[i].branch = FaultCategory(handled[i].exc)

(* C4 amended: scrape_with_error_handling reports the three categories under
   three different branches (a connect timeout under Timeout); in
   scrape_quotes_to_scrape all three end in the one RequestException branch,
   which breaks the loop and returns the records collected so far. *)
C4_DistinctOnlyInErrorDemo ==
    /\ \A i \in 1..Len(handled) :
           /\ FaultCategory(handled[i].exc) # "" =>
                  handled[i].branch = FaultCategory(handled[i].exc)
           /\ \A j \in 1..Len(handled) :
                  ( /\ FaultCategory(handled[i].exc) # ""
                    /\ FaultCategory(handled[j].exc) # ""
                    /\ FaultCategory(handled[i].exc) # FaultCategory(handled[j].exc) )
                  => handled[i].branch # handled[j].branch
    /\ (Scraping /\ served # <<>> /\ FaultCategory(Last(served).exc) # "") =>
           /\ reason = "RequestException"
           /\ pc = "done"
           /\ raised = ""
           /\ result = all_quotes
           /\ Len(result) = ItemCount(Len(served) - 1)

C4_Witness ==
    /\ fn = "scrape_with_error_handling"
    /\ pc = "done"
    /\ {handled[i].exc : i \in 1..Len(handled)} = {"ReadTimeout", "ConnectionError", "HTTPError"}

--------------------------------------------------------------------------
FieldKeys == {"text", "author", "tags", "page"}

\* the placeholder "No <fieldname>" of a single-valued field
Placeholder(field) ==
    CASE field = "text"   -> <<"N", "o", " ", "t", "e", "x", "t">>
      [] field = "author" -> <<"N", "o", " ", "a", "u", "t", "h", "o", "r">>

(* C5: every record holds every declared key; a single-valued field without
   a match holds "No <fieldname>", a multi-valued one without a match the
   empty sequence. *)
C5_PlaceholderIsNoFieldname ==
    Scraping =>
        \A i \in 1..Len(all_quotes) :
            LET item == Items(Len(served))[i]
            IN  /\ DOMAIN all_quotes[i] = FieldKeys
                /\ item.text = <<>> => all_quotes[i].text = Placeholder("text")
                /\ item.author = <<>> => all_quotes[i].author = Placeholder("author")
                /\ item.tag = <<>> => all_quotes[i].tags = <<>>

(* C5 amended: every record holds every declared key; a missing text is
   "No text", a missing author is "Unknown", missing tags are the empty
   sequence. *)
C5_PlaceholderPerField ==
    Scraping =>
        \A i \in 1..Len(all_quotes) :
            LET item == Items(Len(served))[i]
            IN  /\ DOMAIN all_quotes[i] = FieldKeys
                /\ item.text = <<>> =>
                       all_quotes[i].text = <<"N", "o", " ", "t", "e", "x", "t">>
                /\ item.author = <<>> =>
                       all_quotes[i].author = <<"U", "n", "k", "n", "o", "w", "n">>
                /\ item.tag = <<>> => all_quotes[i].tags = <<>>
                /\ Len(all_quotes[i].tags) = Len(item.tag)

C5_Witness ==
    /\ Scraping
    /\ \E i \in 1..Len(all_quotes) : Items(Len(served))[i] = QuoteNoAuthor
    /\ \E i \in 1..Len(all_quotes) : Items(Len(served))[i] = QuoteNoText

--------------------------------------------------------------------------
(* C6: with a page cap set, the run stops with MaxPagesReached as soon as
   the page counter exceeds the cap and never fetches more pages than the
   cap, whatever cap the caller chose. *)
C6_PageCapRespected ==
    \A cap \in 1..MaxPages :
        Scraping =>
            /\ Len(Gets) <= cap
            /\ page > cap => (pc = "done" /\ reason = "MaxPagesReached")

(* C6 amended: scrape_quotes_to_scrape has no page cap.  The loop ends only
   at a page without items, a page without a next link or a
   RequestException; as long as every page has items and a next link the
   next page is fetched. *)
C6_NoPageCap ==
    Scraping =>
        /\ reason \in {"", "NoItemsOnPage", "NoNextPage", "RequestException"}
        /\ (pc = "done") = (reason # "")
        /\ (\A k \in 1..Len(served) : HasItems(k) /\ HasNext(k)) =>
               /\ pc # "done"
               /\ raised = ""
               /\ page = Len(served) + 1
               /\ (pc = "loop" /\ page <= MaxPages) => ENABLED Request

C6_Witness ==
    /\ Scraping
    /\ Len(served) = MaxPages
    /\ \A k \in 1..Len(served) : HasItems(k) /\ HasNext(k)
    /\ page = MaxPages + 1

--------------------------------------------------------------------------
\* the records of the pages 1..k as the items of those pages give them
RECURSIVE RecordsOf(_)
RecordsOf(k) ==
    IF k = 0 THEN <<>>
    ELSE RecordsOf(k - 1) \o
         (IF Fetched(k)
          THEN [i \in 1..Len(served[k].doc.quote) |->
                   [page |-> k, item |-> served[k].doc.quote[i]]]
          ELSE <<>>)

(* C7: a fetched page k without items ends the run as NoItemsOnPage, with or
   without a next link on it, and the records returned are those of the
   pages 1..k-1, none of page k. *)
C7_EmptyPageEndsRun ==
    (Scraping /\ served # <<>> /\ Fetched(Len(served)) /\ ~HasItems(Len(served))) =>
        /\ pc = "done"
        /\ reason = "NoItemsOnPage"
        /\ raised = ""
        /\ Len(result) = Len(RecordsOf(Len(served) - 1))
        /\ \A i \in 1..Len(result) :
               /\ result[i].page = RecordsOf(Len(served) - 1)[i].page
               /\ result[i].page # Len(served)
               /\ Len(result[i].tags) = Len(RecordsOf(Len(served) - 1)[i].item.tag)

C7_Witness ==
    /\ Scraping
    /\ Len(served) = 3
    /\ Fetched(3)
    /\ ~HasItems(3)
    /\ HasNext(3)
    /\ reason = "NoItemsOnPage"
    /\ Len(result) > 1

--------------------------------------------------------------------------
(* C8: the first URL fetched is the URL of the first page, and the URL
   fetched for page k+1 is the next link of page k resolved against the URL
   of page k. *)
C8_FollowsNextLink ==
    Scraping =>
        /\ Gets # <<>> => Gets[1].url = PageUrl(1)
        /\ \A k \in 1..(Len(Gets) - 1) :
               Gets[k + 1].url = urljoin(Gets[k].url, served[k].doc.next[1].href)

(* C8 amended: the URL fetched for page k is base_url followed by
   "/page/k/", built from the page counter; the next link of a page decides
   only whether there is another fetch, its href is not read. *)
C8_UrlFromPageCounter ==
    Scraping =>
        /\ \A k \in 1..Len(Gets) :
               Gets[k].url = [origin |-> "http://quotes.toscrape.com",
                              path   |-> "/page/" \o ToString(k) \o "/"]
        /\ pc = "get" => url = Last(Gets).url
        /\ \A k \in 1..(Len(Gets) - 1) : HasNext(k)

C8_Witness ==
    /\ Scraping
    /\ Len(Gets) = 3
    /\ served[1].doc.next[1].href.path = "/tag/love/page/1/"
    /\ served[2].doc.next[1].href.path = "/page/3/"

--------------------------------------------------------------------------
(* C9: no delay before the first fetch, exactly one between two consecutive
   fetches, none after the last fetch of a run, and never more than one
   fetch in progress. *)
C9_DelayBetweenFetches ==
    Scraping =>
        /\ calls # <<>> => calls[1].op = "get"
        /\ \A i \in 1..(Len(calls) - 1) : calls[i].op # calls[i + 1].op
        /\ (pc = "done" \/ raised # "") => Last(calls).op = "get"
        /\ inflight \in {0, 1}
        /\ inflight = 1 <=> (pc = "get" /\ Len(served) < Len(Gets))

C9_Witness ==
    /\ Scraping
    /\ pc = "done"
    /\ Len(Gets) = 3
    /\ Len(calls) = 5

--------------------------------------------------------------------------
(* C10: when writing a sink raises an I/O error, the error leaves
   save_data_to_files (no later sink is touched) and every sink written
   before it in the order JSON, CSV, summary is complete and holds what the
   step wrote to it. *)
C10_EarlierSinksIntact ==
    (Saving /\ raised # "") =>
        /\ raised = "OSError"
        /\ pc \in {"json", "csv", "txt"}
        /\ \A k \in 1..3 :
               LET name == <<"quotes.json", "quotes.csv", "quotes_summary.txt">>[k]
                   at   == CHOOSE j \in 1..3 : <<"json", "csv", "txt">>[j] = pc
               IN  /\ k < at =>
                          /\ files[name].complete
                          /\ files[name].format = <<"json", "csv", "txt">>[k]
                          /\ k = 1 => files[name].records = quotes
                          /\ k = 2 => Len(files[name].rows) = Len(quotes)
                   /\ k > at => files[name] = OldFile

C10_Witness ==
    /\ Saving
    /\ raised = "OSError"
    /\ pc = "txt"
    /\ Len(quotes) = 2
    /\ files["quotes_summary.txt"].format = "txt"
    /\ ~files["quotes_summary.txt"].complete
    /\ files["quotes.json"].records = quotes

--------------------------------------------------------------------------
\* the tags cell a CSV reader gets back for a record's tags
JoinedTags(tags) ==
    CASE tags = <<>>                   -> <<>>
      [] tags = << <<"a">>, <<"b">> >> -> <<"a", ",", " ", "b">>

(* C11: for a non-empty record list the CSV sink writes the header text,
   author, tags, page and one row per record in record order, the tags cell
   being the tags joined with ', '; the JSON sink keeps the tags as arrays;
   the records in memory keep their tags as they were. *)
C11_CsvJoinsJsonKeeps ==
    (Saving /\ quotes # <<>>) =>
        /\ \A i \in 1..Len(quotes) :
               quotes[i].tags \in {<<>>, << <<"a">>, <<"b">> >>}
        /\ (files["quotes.json"].format = "json" /\ files["quotes.json"].complete) =>
               /\ Len(files["quotes.json"].records) = Len(quotes)
               /\ \A i \in 1..Len(quotes) :
                      files["quotes.json"].records[i] = quotes[i]
        /\ (files["quotes.csv"].format = "csv" /\ files["quotes.csv"].complete) =>
               /\ files["quotes.csv"].header = <<"text", "author", "tags", "page">>
               /\ Len(files["quotes.csv"].rows) = Len(quotes)
               /\ \A i \in 1..Len(quotes) :
                      files["quotes.csv"].rows[i] =
                          <<quotes[i].text, quotes[i].author,
                            JoinedTags(quotes[i].tags), <<"1">> >>

C11_Witness ==
    /\ Saving
    /\ pc = "done"
    /\ Len(quotes) = 3
    /\ quotes[1].tags = <<>>
    /\ quotes[2].tags = << <<"a">>, <<"b">> >>
    /\ files["quotes.csv"].rows[2][3] = <<"a", ",", " ", "b">>
    /\ files["quotes.json"].records[2].tags = << <<"a">>, <<"b">> >>

--------------------------------------------------------------------------
(* C12: a call against the site as an earlier call saw it returns the record
   sequence that call returned; every call starts with an empty list and
   the page counter at 1. *)
C12_SameSiteSameRecords ==
    Scraping =>
        /\ (pc = "done" /\ previous # <<>>) =>
               \A c \in 1..Len(previous) : result = previous[c]
        /\ (pc = "loop" /\ calls = <<>>) => (all_quotes = <<>> /\ page = 1)
        /\ Len(all_quotes) = ItemCount(Len(served))

C12_Witness ==
    /\ Scraping
    /\ pc = "done"
    /\ previous # <<>>
    /\ Len(served) = 3
    /\ Len(result) = 4
    /\ result = previous[1]

--------------------------------------------------------------------------
\* the written summary, once the third sink has run to its end
Summary == files["quotes_summary.txt"]

(* C13: for a non-empty record list the summary gives the number of records
   as the total, the number of distinct authors as the unique-author count,
   and the first min(5, n) records, in their order, as the samples. *)
C13_SummaryCounts ==
    (Saving /\ quotes # <<>> /\ Summary.format = "txt" /\ Summary.complete) =>
        /\ Summary.total = Len(quotes)
        /\ Summary.authors =
               Cardinality({a \in {<<"A">>, <<"B">>} :
                               \E i \in 1..Len(quotes) : quotes[i].author = a})
        /\ Len(Summary.samples) = (IF Len(quotes) < 5 THEN Len(quotes) ELSE 5)
        /\ \A i \in 1..Len(Summary.samples) :
               Summary.samples[i] = <<i, quotes[i].text, quotes[i].author>>

C13_Witness ==
    /\ Saving
    /\ pc = "done"
    /\ Len(quotes) = 6
    /\ Summary.total = 6
    /\ Summary.authors = 2
    /\ Len(Summary.samples) = 5
    /\ quotes[6].author # quotes[5].author

--------------------------------------------------------------------------
(* C14: scrape_with_error_handling tries every URL of its list once, in list
   order, whatever became of the URLs before it (success, timeout,
   connection error, HTTP error, other request error, unexpected error): a
   failure is handled by a branch, the loop goes on, and no exception leaves
   the function. *)
C14_EveryUrlTriedOnce ==
    fn = "scrape_with_error_handling" =>
        LET urls == <<"https://httpbin.org/html",
                      "https://httpbin.org/status/404",
                      "https://this-domain-does-not-exist.invalid">>
        IN  /\ raised = ""
            /\ Len(handled) <= 3
            /\ \A i \in 1..Len(handled) :
                   /\ handled[i].url = urls[i]
                   /\ handled[i].branch # ""
                   /\ (handled[i].branch = "success") = (handled[i].exc = "")
            /\ todo = SubSeq(urls, Len(handled) + 1, 3)
            /\ pc = "done" => Len(handled) = 3
            /\ (pc = "for" /\ Len(handled) < 3) => ENABLED (UrlSucceeds \/ UrlFails)

C14_Witness ==
    /\ fn = "scrape_with_error_handling"
    /\ pc = "done"
    /\ Len(handled) = 3
    /\ handled[1].exc = "ReadTimeout"
    /\ handled[2].exc = "AttributeError"
    /\ handled[3].exc = ""

--------------------------------------------------------------------------
(* C15: with an empty record list save_data_to_files and
   analyze_scraped_data return without raising and none of quotes.json,
   quotes.csv, quotes_summary.txt is created or overwritten; with a
   non-empty list the three files are written, in that order. *)
C15_EmptyListTouchesNothing ==
    LET names == <<"quotes.json", "quotes.csv", "quotes_summary.txt">>
    IN  /\ (Saving /\ quotes = <<>>) =>
               /\ raised = ""
               /\ pc \in {"entry", "done"}
               /\ \A k \in 1..3 : files[names[k]] = [format |-> "old", complete |-> TRUE]
        /\ (fn = "analyze_scraped_data" /\ quotes = <<>>) =>
               /\ raised = ""
               /\ pc \in {"entry", "done"}
               /\ report = [printed |-> FALSE]
        /\ (Saving /\ quotes # <<>>) =>
               /\ \A k \in 2..3 :
                      files[names[k]].format # "old" =>
                          /\ files[names[k - 1]].format # "old"
                          /\ files[names[k - 1]].complete
               /\ pc = "done" =>
                      \A k \in 1..3 :
                          /\ files[names[k]].format = <<"json", "csv", "txt">>[k]
                          /\ files[names[k]].complete

C15_Witness ==
    /\ Saving
    /\ quotes = <<>>
    /\ pc = "done"
    /\ raised = ""
    /\ \A f \in FileNames : files[f].format = "old"

====
